---- MODULE Spec2Model ----
(***************************************************************************)
(* Batch media scripts of instavideos-daily: add_logo.py,                  *)
(* add_logo_to_images.py, extract_audio.py, video_to_gif.py,               *)
(* make_circular.py and make_video_circular.py.                            *)
(*                                                                         *)
(* Spec      one run of a script's process_directory: discovery, the batch *)
(*           loop, and the per-file operation step by step (external-tool  *)
(*           invocations, the circular-video pipeline with its worker      *)
(*           pool and temporary directory).                                *)
(* SpecCrop  the crop-box arithmetic of make_circular and                  *)
(*           make_video_circular as a pure function of frame size,         *)
(*           detected face rectangle and crop scale.                       *)
(***************************************************************************)
EXTENDS Integers, Sequences, FiniteSets, TLC

VARIABLES
    \* ---- the run's environment and arguments
    script,           \* which script's process_directory runs
    dir_files,        \* regular files below the input directory
    output_dir,       \* TRUE when an output directory argument was given
    ffmpeg_installed, \* FALSE: subprocess.run raises FileNotFoundError
    audio_format,     \* extract_audio's --format
    \* ---- process_directory
    pc,               \* "start", "loop", "done", "crashed"
    video_files,      \* the discovered list, in iteration order
    idx,              \* position of the batch loop (1-based)
    success_count,
    handed,           \* [file, output] per call of the per-file operation, in order
    results,          \* what each returned per-file operation returned
    summary,          \* the "Processed S/T" lines printed
    \* ---- the per-file operation in progress
    fpc,              \* its position
    cmds,             \* external-tool processes it started, in order
    ret,              \* its return value
    reported,         \* success messages it printed
    \* ---- make_video_circular locals
    trace,            \* pipeline stages begun so far, in order
    detect_calls,     \* frames handed to detect_face_in_frame, in order
    frame_size,       \* [width, height] read from the capture
    face_info,
    crop_coords,
    temp_dir,         \* "none", "exists", "removed"
    frames_data,      \* number of frames read into memory
    process_args,     \* the argument tuples given to pool.imap
    pool_size,        \* cpu_count()
    tasks,            \* per task: "queued", "running", "done", "failed"
    consumed,         \* results the parent has taken from imap
    frame_files,      \* PNG files in frames_dir
    writes,           \* every (task, file name) write that happened
    encoded,          \* frames ffmpeg read from frames_dir, in order
    \* ---- crop arithmetic (SpecCrop)
    cpc,              \* "idle", "input", "detected", "cropped"
    cin,              \* the inputs: caller, frame size, faces, crop scale
    cface,            \* detect_face's result
    cbox,             \* the crop box
    \* ---- command construction (SpecCmd)
    kpc,              \* "idle", "input", "built"
    kargs,            \* the arguments of the per-file operation
    kcmd              \* [raised, cmds]: the argument lists it built

envVars   == <<script, dir_files, output_dir, ffmpeg_installed, audio_format>>
batchVars == <<pc, video_files, idx, success_count, handed, results, summary>>
callVars  == <<fpc, cmds, ret, reported>>
videoVars == <<trace, detect_calls, frame_size, face_info, crop_coords, temp_dir, frames_data,
               process_args, pool_size, tasks, consumed, frame_files, writes, encoded>>
cropVars  == <<cpc, cin, cface, cbox>>
cmdVars   == <<kpc, kargs, kcmd>>
vars      == <<envVars, batchVars, callVars, videoVars, cropVars, cmdVars>>

-----------------------------------------------------------------------------
(* Bounds of the model.                                                    *)

MaxFiles  == 2   \* files below the input directory
MaxFrames == 2   \* frames of one video
MaxPool   == 2   \* cpu_count()

-----------------------------------------------------------------------------
(* Scripts, files and paths.                                               *)

Scripts == {"add_logo", "add_logo_to_images", "extract_audio",
            "video_to_gif", "make_circular", "make_video_circular"}

ImageScripts == {"add_logo_to_images", "make_circular"}

None == "None"

\* A file is [dir |-> path parts of its directory, stem, suffix].
InputDir == <<"in">>
OutDir   == <<"out">>

File(d, s, x) == [dir |-> d, stem |-> s, suffix |-> x]

\* Files that may lie below the input directory of a video script and of an
\* image script, each listed in the order sorted() gives Path objects (by
\* parts, code point by code point: upper case before lower case).
VideoUniverse ==
    << File(InputDir, "a", ".avi"),
       File(InputDir, "a", ".mp4"),
       File(InputDir, "a_circular", ".mp4"),
       File(InputDir, "b", ".MP4"),
       File(InputDir, "c", ".Mp4"),
       File(InputDir, "notes", ".txt"),
       File(<<"in", "sub">>, "a", ".mp4") >>

ImageUniverse ==
    << File(InputDir, "a", ".jpg"),
       File(InputDir, "a", ".png"),
       File(InputDir, "b", ".PNG"),
       File(InputDir, "c", ".Png"),
       File(<<"in", "circular">>, "a_circular", ".png"),
       File(InputDir, "notes", ".txt"),
       File(<<"in", "sub">>, "a", ".png") >>

Universe(s) == IF s \in ImageScripts THEN ImageUniverse ELSE VideoUniverse

Range(q) == {q[i] : i \in 1..Len(q)}

\* str.lower() and str.upper() on the suffixes that occur.
Lower(x) ==
    CASE x = ".MP4" -> ".mp4"
      [] x = ".Mp4" -> ".mp4"
      [] x = ".PNG" -> ".png"
      [] x = ".Png" -> ".png"
      [] OTHER -> x

Upper(x) ==
    CASE x = ".mp4" -> ".MP4"
      [] x = ".avi" -> ".AVI"
      [] x = ".mov" -> ".MOV"
      [] x = ".mkv" -> ".MKV"
      [] x = ".webm" -> ".WEBM"
      [] x = ".flv" -> ".FLV"
      [] x = ".wmv" -> ".WMV"
      [] x = ".m4v" -> ".M4V"
      [] x = ".png" -> ".PNG"
      [] x = ".jpg" -> ".JPG"
      [] x = ".jpeg" -> ".JPEG"
      [] x = ".bmp" -> ".BMP"
      [] x = ".gif" -> ".GIF"
      [] x = ".tiff" -> ".TIFF"
      [] x = ".webp" -> ".WEBP"
      [] OTHER -> x

\* 'circular' in <string>, 'temp_' in <string>, on the names that occur.
HasCircular(s) == s \in {"circular", "a_circular"}
HasTemp(s) == FALSE

video_extensions(s) ==
    IF s = "make_video_circular"
    THEN {".mp4", ".avi", ".mov", ".mkv", ".webm", ".flv"}
    ELSE {".mp4", ".avi", ".mov", ".mkv", ".webm", ".flv", ".wmv", ".m4v"}

image_extensions == {".png", ".jpg", ".jpeg", ".bmp", ".gif", ".tiff", ".webp"}

extensions(s) == IF s \in ImageScripts THEN image_extensions ELSE video_extensions(s)

\* Path.glob('*<ext>') plus Path.glob('*<EXT>') over every supported extension:
\* direct children only, the suffix matched case-sensitively.
GlobBoth(files, exts) ==
    {f \in files : /\ f.dir = InputDir
                   /\ \E e \in exts : f.suffix = e \/ f.suffix = Upper(e)}

\* Path.rglob, the same over every directory below the input directory.
RGlobBoth(files, exts) ==
    {f \in files : \E e \in exts : f.suffix = e \/ f.suffix = Upper(e)}

\* iterdir() filtered by f.suffix.lower() in extensions.
IterDir(files, exts) ==
    {f \in files : f.dir = InputDir /\ Lower(f.suffix) \in exts}

\* The set of files a script's process_directory finds.
Discover(s, files) ==
    CASE s \in {"add_logo", "add_logo_to_images"} ->
            IterDir(files, extensions(s))
      [] s \in {"extract_audio", "video_to_gif"} ->
            GlobBoth(files, extensions(s))
      [] s = "make_video_circular" ->
            {f \in GlobBoth(files, extensions(s)) :
                ~HasCircular(f.stem) /\ ~HasTemp(f.stem)}
      [] s = "make_circular" ->
            {f \in RGlobBoth(files, extensions(s)) :
                /\ ~HasCircular(f.stem)
                /\ \A i \in 1..Len(f.dir) : ~HasCircular(f.dir[i])}

\* sorted(files): the sequence of the set's members in path order.
RECURSIVE SortedFrom(_, _, _)
SortedFrom(u, i, S) ==
    IF i > Len(u) THEN <<>>
    ELSE (IF u[i] \in S THEN <<u[i]>> ELSE <<>>) \o SortedFrom(u, i + 1, S)

Sorted(s, S) == SortedFrom(Universe(s), 1, S)

\* Every order in which the members of S can be listed (iterdir's order).
Orders(S) ==
    {q \in [1..Cardinality(S) -> S] : \A i, j \in 1..Cardinality(S) : i # j => q[i] # q[j]}

\* The lists the batch loop may iterate: add_logo iterates iterdir's order,
\* every other script iterates sorted(...).
IterationOrders(s, S) == IF s = "add_logo" THEN Orders(S) ELSE {Sorted(s, S)}

\* Path.with_suffix on a name given as <<stem parts..., suffix>>.
WithSuffix(name, suffix) == [name EXCEPT ![Len(name)] = suffix]

\* output_file as the batch loop computes it for input f (for extract_audio
\* and video_to_gif without an output directory: the default the per-file
\* operation derives from the input path): [dir, name parts].
OutputFile(s, f, outdir, fmt) ==
    CASE s \in {"add_logo", "add_logo_to_images"} ->
            [dir |-> IF outdir THEN OutDir ELSE Append(InputDir, "with_logo"),
             name |-> <<f.stem, f.suffix>>]
      [] s = "extract_audio" ->
            [dir |-> IF outdir THEN OutDir ELSE f.dir,
             name |-> <<f.stem, ".", fmt>>]
      [] s = "video_to_gif" ->
            [dir |-> IF outdir THEN OutDir ELSE f.dir,
             name |-> <<f.stem, ".gif">>]
      [] s = "make_circular" ->
            [dir |-> IF outdir THEN OutDir ELSE Append(f.dir, "circular"),
             name |-> <<f.stem, "_circular", ".png">>]
      [] s = "make_video_circular" ->
            [dir |-> IF outdir THEN OutDir ELSE Append(InputDir, "output"),
             name |-> <<f.stem, "_circular", ".mp4">>]

\* The path the per-file operation writes: make_video_circular replaces a
\* suffix other than .mov / .webm by .mov, make_circular one other than .png
\* by .png.
OutputPath(s, f, outdir, fmt) ==
    LET p == OutputFile(s, f, outdir, fmt)
        suffix == p.name[Len(p.name)]
    IN  CASE s = "make_video_circular" /\ suffix \notin {".mov", ".webm"} ->
                [p EXCEPT !.name = WithSuffix(p.name, ".mov")]
          [] s = "make_circular" /\ Lower(suffix) # ".png" ->
                [p EXCEPT !.name = WithSuffix(p.name, ".png")]
          [] OTHER -> p

-----------------------------------------------------------------------------
(* Face detection and the crop box.                                        *)

Min(a, b) == IF a < b THEN a ELSE b
Max(a, b) == IF a > b THEN a ELSE b

\* detect_face's None.
NoFace == [found |-> FALSE]

Rect(x, y, w, h) == [x |-> x, y |-> y, w |-> w, h |-> h]

\* max(faces, key=lambda face: face[2] * face[3]): the first face of largest area.
LargestFace(faces) ==
    LET best == CHOOSE i \in 1..Len(faces) :
                    /\ \A j \in 1..Len(faces) : faces[j].w * faces[j].h <= faces[i].w * faces[i].h
                    /\ \A j \in 1..(i - 1) : faces[j].w * faces[j].h < faces[i].w * faces[i].h
    IN  faces[best]

\* detect_face / detect_face_in_frame on the classifier's list of rectangles.
detect_face_in_frame(faces) ==
    IF Len(faces) > 0
    THEN LET f == LargestFace(faces)
         IN  [found |-> TRUE,
              center_x |-> f.x + f.w \div 2,
              center_y |-> f.y + f.h \div 2,
              face_size |-> Max(f.w, f.h)]
    ELSE NoFace

Box(l, t, r, b) == [left |-> l, top |-> t, right |-> r, bottom |-> b]

\* Mutant: the interval is neither clamped to the frame nor shifted back.
AxisCropUnclamped(c, size, limit) ==
    [lo |-> c - size \div 2, hi |-> c - size \div 2 + size]

\* Mutant: the side is not halved when the box is placed around the centre.
AxisCropFromCorner(c, size, limit) ==
    LET lo0 == Max(0, c - size)
        hi0 == Min(limit, lo0 + size)
    IN  IF hi0 - lo0 < size
        THEN IF lo0 = 0
             THEN [lo |-> lo0, hi |-> Min(limit, size)]
             ELSE [lo |-> Max(0, limit - size), hi |-> hi0]
        ELSE [lo |-> lo0, hi |-> hi0]

\* One axis of "Calculate crop coordinates centered on face" and "Adjust if we
\* hit boundaries": the interval [lo, hi) for centre c, side size, extent limit.
AxisCrop(c, size, limit) ==
    LET lo0 == Max(0, c - size \div 2)
        hi0 == Min(limit, lo0 + size)
    IN  IF hi0 - lo0 < size
        THEN IF lo0 = 0
             THEN [lo |-> lo0, hi |-> Min(limit, size)]
             ELSE [lo |-> Max(0, limit - size), hi |-> hi0]
        ELSE [lo |-> lo0, hi |-> hi0]

\* The face branch of make_video_circular: crop_scale is scale.num / scale.den,
\* and int(face_size * crop_scale) truncates (crop_scale >= 0 here).
FaceCropBox(width, height, fi, scale) ==
    LET size0 == Min((fi.face_size * scale.num) \div scale.den, Min(width, height))
        h == AxisCrop(fi.center_x, size0, width)
        v == AxisCrop(fi.center_y, size0, height)
        size == Min(h.hi - h.lo, v.hi - v.lo)
    IN  Box(h.lo, v.lo, h.lo + size, v.lo + size)

\* Mutant: the fallback square starts at the top-left corner.
CenterCropBoxCorner(width, height) ==
    LET size == Min(width, height)
    IN  Box(0, 0, size, size)

\* "Fallback to center cropping if no face detected".
CenterCropBox(width, height) ==
    LET size == Min(width, height)
        left == (width - size) \div 2
        top == (height - size) \div 2
    IN  Box(left, top, left + size, top + size)

\* crop_scale's default in make_video_circular; make_circular hard-codes 2.5.
DefaultCropScale == [num |-> 5, den |-> 2]
MakeCircularScale == [num |-> 5, den |-> 2]

CropBox(width, height, fi, scale) ==
    IF fi.found THEN FaceCropBox(width, height, fi, scale)
    ELSE CenterCropBox(width, height)

-----------------------------------------------------------------------------
(* Frame file names.                                                       *)

FrameDigits == 6      \* f"frame_{frame_number:06d}.png"
PatternDigits == 6    \* 'frame_%06d.png'

RECURSIVE Digits(_)
Digits(n) == IF n < 10 THEN <<n>> ELSE Append(Digits(n \div 10), n % 10)

RECURSIVE ZeroPad(_, _)
ZeroPad(ds, width) == IF Len(ds) >= width THEN ds ELSE ZeroPad(<<0>> \o ds, width)

\* Mutant: the frame number is left out of the file name.
FrameNameShared(frame_number) == ZeroPad(Digits(0), FrameDigits)

\* The name process_single_frame saves frame frame_number under.
FrameName(frame_number) == ZeroPad(Digits(frame_number), FrameDigits)

\* The name ffmpeg's image sequence pattern expands to for its k-th input.
PatternName(k) == ZeroPad(Digits(k), PatternDigits)

\* The frames ffmpeg reads from frames_dir: the pattern's names from number 0
\* up to the first one that is missing.
RECURSIVE ReadSequence(_, _)
ReadSequence(files, k) ==
    IF \E r \in files : r.name = PatternName(k)
    THEN <<(CHOOSE r \in files : r.name = PatternName(k)).frame>> \o ReadSequence(files, k + 1)
    ELSE <<>>

\* Mutant: the crop box drifts with the frame number.
ProcessArgsPerFrame(n, cc) ==
    [i \in 1..n |-> [frame_number |-> i - 1,
                     crop_coords |-> [cc EXCEPT !.left = cc.left + (i - 1),
                                                !.right = cc.right + (i - 1)]]]

\* enumerate(frames_data) into the argument tuples of process_single_frame.
ProcessArgs(n, cc) ==
    [i \in 1..n |-> [frame_number |-> i - 1, crop_coords |-> cc]]

\* Mutant: the parent does not wait for the results.
PoolDrainedEarly(taken, n) == TRUE

\* The for-loop over pool.imap ends when every result has been taken.
PoolDrained(taken, n) == taken = n

-----------------------------------------------------------------------------
(* External tool.                                                          *)

ExitCodes == {0, 1}

\* Mutant: the command is run a second time.
RunToolRetry(log, pass, returncode) ==
    Append(Append(log, [pass |-> pass, returncode |-> returncode]),
           [pass |-> pass, returncode |-> returncode])

\* subprocess.run(cmd): one ffmpeg process started, which exits with returncode.
RunTool(log, pass, returncode) ==
    Append(log, [pass |-> pass, returncode |-> returncode])

\* audio_format.lower() on the formats that occur.
LowerFormat(fmt) ==
    CASE fmt = "FLAC" -> "flac"
      [] fmt = "Mp3" -> "mp3"
      [] OTHER -> fmt

\* The formats the docstring and the usage text list.
DocumentedFormats == {"mp3", "wav", "aac", "ogg", "flac", "m4a"}

\* Mutant: an unknown format falls back to MP3 instead of being refused.
AudioCodecFallback(fmt) ==
    LET f == LowerFormat(fmt)
    IN  CASE f \in {"mp3"} -> "libmp3lame"
          [] f \in {"wav"} -> "pcm_s16le"
          [] f \in {"aac", "m4a"} -> "aac"
          [] f \in {"ogg"} -> "libvorbis"
          [] f \in {"flac"} -> "flac"
          [] OTHER -> "libmp3lame"

\* The -acodec extract_audio's if/elif chain selects, None for the else branch.
AudioCodec(fmt) ==
    LET f == LowerFormat(fmt)
    IN  CASE f \in {"mp3"} -> "libmp3lame"
          [] f \in {"wav"} -> "pcm_s16le"
          [] f \in {"aac", "m4a"} -> "aac"
          [] f \in {"ogg"} -> "libvorbis"
          [] f \in {"flac"} -> "flac"
          [] OTHER -> None

\* Mutant: the palette pass's exit code is ignored.
PaletteOkAlways(returncode) == TRUE

\* convert_video_to_gif goes on to the second pass after this palette exit code.
PaletteOk(returncode) == returncode = 0

-----------------------------------------------------------------------------
(* Initial states.                                                         *)

AudioFormats == {"mp3", "wav", "aac", "ogg", "flac", "m4a", "FLAC", "Mp3", "opus", "mp4"}

\* The classifier's answers on a first frame, and the frame sizes, the
\* pipeline is run on (SpecCrop covers the crop arithmetic widely).
PipelineFrames == {[width |-> 80, height |-> 60]}
PipelineFaces ==
    {<<>>, <<Rect(40, 10, 30, 30)>>, <<Rect(0, 0, 30, 30), Rect(40, 20, 32, 31)>>}

CallIdle ==
    /\ fpc = "idle"
    /\ cmds = <<>>
    /\ ret = None
    /\ reported = {}

VideoIdle ==
    /\ trace = <<>>
    /\ detect_calls = <<>>
    /\ frame_size = None
    /\ face_info = NoFace
    /\ crop_coords = None
    /\ temp_dir = "none"
    /\ frames_data = 0
    /\ process_args = <<>>
    /\ pool_size = 0
    /\ tasks = <<>>
    /\ consumed = 0
    /\ frame_files = {}
    /\ writes = {}
    /\ encoded = <<>>

CropIdle ==
    /\ cpc = "idle"
    /\ cin = None
    /\ cface = None
    /\ cbox = None

CmdIdle ==
    /\ kpc = "idle"
    /\ kargs = None
    /\ kcmd = None

BatchStart ==
    /\ pc = "start"
    /\ video_files = <<>>
    /\ idx = 0
    /\ success_count = 0
    /\ handed = <<>>
    /\ results = <<>>
    /\ summary = <<>>

Init ==
    /\ script \in Scripts
    /\ dir_files \in {S \in SUBSET Range(Universe(script)) : Cardinality(S) <= MaxFiles}
    /\ output_dir \in BOOLEAN
    /\ ffmpeg_installed \in BOOLEAN
    /\ audio_format \in (IF script = "extract_audio" THEN AudioFormats ELSE {"mp3"})
    /\ BatchStart
    /\ CallIdle
    /\ VideoIdle
    /\ CropIdle
    /\ CmdIdle

-----------------------------------------------------------------------------
(* process_directory.                                                      *)

LogoScripts == {"add_logo", "add_logo_to_images"}

\* Early return: the input directory or the logo file does not exist.
StartMissing ==
    /\ pc = "start"
    /\ \/ dir_files = {}
       \/ script \in LogoScripts
    /\ pc' = "done"
    /\ UNCHANGED <<video_files, idx, success_count, handed, results, summary>>
    /\ UNCHANGED <<envVars, callVars, videoVars, cropVars, cmdVars>>

\* Early return: "No ... files found".
StartEmpty ==
    /\ pc = "start"
    /\ Discover(script, dir_files) = {}
    /\ pc' = "done"
    /\ UNCHANGED <<video_files, idx, success_count, handed, results, summary>>
    /\ UNCHANGED <<envVars, callVars, videoVars, cropVars, cmdVars>>

\* Discovery found files: the batch loop starts.
StartLoop ==
    /\ pc = "start"
    /\ Discover(script, dir_files) # {}
    /\ \E order \in IterationOrders(script, Discover(script, dir_files)) :
          video_files' = order
    /\ pc' = "loop"
    /\ idx' = 1
    /\ success_count' = 0
    /\ UNCHANGED <<handed, results, summary>>
    /\ UNCHANGED <<envVars, callVars, videoVars, cropVars, cmdVars>>

Entry(s) ==
    CASE s \in LogoScripts -> "overlay"
      [] s = "extract_audio" -> "extract"
      [] s = "video_to_gif" -> "palettegen"
      [] s = "make_circular" -> "circular"
      [] s = "make_video_circular" -> "open"

\* The loop hands the next file to the per-file operation.
LoopCall ==
    /\ pc = "loop"
    /\ fpc = "idle"
    /\ idx <= Len(video_files)
    /\ handed' = Append(handed,
                        [file |-> video_files[idx],
                         output |-> OutputPath(script, video_files[idx], output_dir,
                                               audio_format)])
    /\ fpc' = Entry(script)
    /\ UNCHANGED <<cmds, ret, reported>>
    /\ UNCHANGED <<pc, video_files, idx, success_count, results, summary>>
    /\ UNCHANGED <<envVars, videoVars, cropVars, cmdVars>>

\* The per-file operation returned: count a success and go to the next file.
LoopReturn ==
    /\ pc = "loop"
    /\ fpc = "returned"
    /\ success_count' = IF ret THEN success_count + 1 ELSE success_count
    /\ results' = Append(results, ret)
    /\ idx' = idx + 1
    /\ fpc' = "idle"
    /\ cmds' = <<>>
    /\ ret' = None
    /\ reported' = {}
    /\ trace' = <<>>
    /\ detect_calls' = <<>>
    /\ frame_size' = None
    /\ face_info' = NoFace
    /\ crop_coords' = None
    /\ temp_dir' = "none"
    /\ frames_data' = 0
    /\ process_args' = <<>>
    /\ pool_size' = 0
    /\ tasks' = <<>>
    /\ consumed' = 0
    /\ frame_files' = {}
    /\ writes' = {}
    /\ encoded' = <<>>
    /\ UNCHANGED <<pc, video_files, handed, summary>>
    /\ UNCHANGED <<envVars, cropVars, cmdVars>>

\* The per-file operation raised: the exception leaves process_directory.
LoopRaise ==
    /\ pc = "loop"
    /\ fpc = "raised"
    /\ pc' = "crashed"
    /\ UNCHANGED <<video_files, idx, success_count, handed, results, summary>>
    /\ UNCHANGED <<envVars, callVars, videoVars, cropVars, cmdVars>>

\* print(f"Processed {success_count}/{len(video_files)} ...").
Summary ==
    /\ pc = "loop"
    /\ fpc = "idle"
    /\ idx > Len(video_files)
    /\ summary' = Append(summary, [S |-> success_count, T |-> Len(video_files)])
    /\ pc' = "done"
    /\ UNCHANGED <<video_files, idx, success_count, handed, results>>
    /\ UNCHANGED <<envVars, callVars, videoVars, cropVars, cmdVars>>

-----------------------------------------------------------------------------
(* The per-file operations built on one or two ffmpeg commands.            *)

Return(value, messages) ==
    /\ ret' = value
    /\ reported' = messages
    /\ fpc' = "returned"

\* add_logo_to_video and add_logo_to_image: subprocess.run(cmd, check=True),
\* with only CalledProcessError caught.
AddLogo ==
    /\ pc = "loop"
    /\ fpc = "overlay"
    /\ IF ~ffmpeg_installed
       THEN /\ fpc' = "raised"
            /\ UNCHANGED <<cmds, ret, reported>>
       ELSE \E returncode \in ExitCodes :
               /\ cmds' = RunTool(cmds, "overlay", returncode)
               /\ Return(returncode = 0, IF returncode = 0 THEN {"added logo"} ELSE {})
    /\ UNCHANGED <<envVars, batchVars, videoVars, cropVars, cmdVars>>

\* extract_audio.
ExtractAudio ==
    /\ pc = "loop"
    /\ fpc = "extract"
    /\ \E exists \in BOOLEAN, returncode \in ExitCodes, stat_ok \in BOOLEAN :
          IF ~exists \/ AudioCodec(audio_format) = None \/ ~ffmpeg_installed
          THEN /\ Return(FALSE, {})
               /\ UNCHANGED cmds
          ELSE /\ cmds' = RunTool(cmds, AudioCodec(audio_format), returncode)
               /\ IF returncode = 0 /\ stat_ok
                  THEN Return(TRUE, {"extracted audio"})
                  ELSE Return(FALSE, {})
    /\ UNCHANGED <<envVars, batchVars, videoVars, cropVars, cmdVars>>

\* convert_video_to_gif up to the palette pass's exit code.
GifPalette ==
    /\ pc = "loop"
    /\ fpc = "palettegen"
    /\ \E exists \in BOOLEAN, returncode \in ExitCodes :
          IF ~exists \/ ~ffmpeg_installed
          THEN /\ Return(FALSE, {})
               /\ UNCHANGED cmds
          ELSE /\ cmds' = RunTool(cmds, "palettegen", returncode)
               /\ IF PaletteOk(returncode)
                  THEN /\ fpc' = "paletteuse"
                       /\ UNCHANGED <<ret, reported>>
                  ELSE Return(FALSE, {})
    /\ UNCHANGED <<envVars, batchVars, videoVars, cropVars, cmdVars>>

\* convert_video_to_gif's second pass.
GifEncode ==
    /\ pc = "loop"
    /\ fpc = "paletteuse"
    /\ \E returncode \in ExitCodes, stat_ok \in BOOLEAN :
          /\ cmds' = RunTool(cmds, "paletteuse", returncode)
          /\ IF returncode = 0 /\ stat_ok
             THEN Return(TRUE, {"created GIF"})
             ELSE Return(FALSE, {})
    /\ UNCHANGED <<envVars, batchVars, videoVars, cropVars, cmdVars>>

\* make_circular: no external tool; any exception is caught.
MakeCircular ==
    /\ pc = "loop"
    /\ fpc = "circular"
    /\ \E ok \in BOOLEAN :
          Return(ok, IF ok THEN {"converted"} ELSE {})
    /\ UNCHANGED cmds
    /\ UNCHANGED <<envVars, batchVars, videoVars, cropVars, cmdVars>>

-----------------------------------------------------------------------------
(* make_video_circular.                                                    *)

unchangedPool == <<pool_size, tasks, consumed, frame_files, writes, encoded>>

\* Open the capture, read its properties and the first frame.
VideoOpen ==
    /\ pc = "loop"
    /\ fpc = "open"
    /\ \E opened \in BOOLEAN, first_ok \in BOOLEAN, size \in PipelineFrames :
          IF opened /\ first_ok
          THEN /\ frame_size' = size
               /\ trace' = Append(trace, "first_frame")
               /\ fpc' = "detect"
               /\ UNCHANGED <<ret, reported>>
          ELSE /\ Return(FALSE, {})
               /\ UNCHANGED <<frame_size, trace>>
    /\ UNCHANGED <<cmds, detect_calls, face_info, crop_coords, temp_dir, frames_data,
                   process_args>>
    /\ UNCHANGED unchangedPool
    /\ UNCHANGED <<envVars, batchVars, cropVars, cmdVars>>

\* face_info = detect_face_in_frame(first_frame).
VideoDetect ==
    /\ pc = "loop"
    /\ fpc = "detect"
    /\ \E faces \in PipelineFaces :
          face_info' = detect_face_in_frame(faces)
    /\ detect_calls' = Append(detect_calls, 0)
    /\ trace' = Append(trace, "detect")
    /\ fpc' = "crop"
    /\ UNCHANGED <<cmds, ret, reported, frame_size, crop_coords, temp_dir, frames_data,
                   process_args>>
    /\ UNCHANGED unchangedPool
    /\ UNCHANGED <<envVars, batchVars, cropVars, cmdVars>>

\* The crop box, from the face or the centre-crop fallback.
VideoCrop ==
    /\ pc = "loop"
    /\ fpc = "crop"
    /\ crop_coords' = CropBox(frame_size.width, frame_size.height, face_info,
                              DefaultCropScale)
    /\ trace' = Append(trace, "crop")
    /\ fpc' = "mkdtemp"
    /\ UNCHANGED <<cmds, ret, reported, detect_calls, frame_size, face_info, temp_dir,
                   frames_data, process_args>>
    /\ UNCHANGED unchangedPool
    /\ UNCHANGED <<envVars, batchVars, cropVars, cmdVars>>

\* temp_dir = tempfile.mkdtemp() and its frames subdirectory.
VideoMkdtemp ==
    /\ pc = "loop"
    /\ fpc = "mkdtemp"
    /\ temp_dir' = "exists"
    /\ fpc' = "read"
    /\ UNCHANGED <<cmds, ret, reported, trace, detect_calls, frame_size, face_info,
                   crop_coords, frames_data, process_args>>
    /\ UNCHANGED unchangedPool
    /\ UNCHANGED <<envVars, batchVars, cropVars, cmdVars>>

\* "Read all frames into memory and encode them".
VideoRead ==
    /\ pc = "loop"
    /\ fpc = "read"
    /\ \E n \in 1..MaxFrames : frames_data' = n
    /\ trace' = Append(trace, "extract")
    /\ fpc' = "args"
    /\ UNCHANGED <<cmds, ret, reported, detect_calls, frame_size, face_info, crop_coords,
                   temp_dir, process_args>>
    /\ UNCHANGED unchangedPool
    /\ UNCHANGED <<envVars, batchVars, cropVars, cmdVars>>

\* An exception while detecting, creating the directory or reading frames.
VideoRaise ==
    /\ pc = "loop"
    /\ fpc \in {"detect", "mkdtemp", "read"}
    /\ fpc' = "except"
    /\ UNCHANGED <<cmds, ret, reported>>
    /\ UNCHANGED <<envVars, batchVars, videoVars, cropVars, cmdVars>>

\* process_args is built and the pool of cpu_count() processes created.
VideoPool ==
    /\ pc = "loop"
    /\ fpc = "args"
    /\ process_args' = ProcessArgs(frames_data, crop_coords)
    /\ \E n \in 1..MaxPool : pool_size' = n
    /\ tasks' = [i \in 1..frames_data |-> "queued"]
    /\ consumed' = 0
    /\ trace' = Append(trace, "map")
    /\ fpc' = "pool"
    /\ UNCHANGED <<cmds, ret, reported, detect_calls, frame_size, face_info, crop_coords,
                   temp_dir, frames_data, frame_files, writes, encoded>>
    /\ UNCHANGED <<envVars, batchVars, cropVars, cmdVars>>

Running == {i \in 1..Len(tasks) : tasks[i] = "running"}

unchangedByWorker ==
    <<cmds, ret, reported, fpc, trace, detect_calls, frame_size, face_info, crop_coords,
      temp_dir, frames_data, process_args, pool_size, consumed, encoded>>

\* An idle worker process takes the next queued task.
WorkerStart ==
    /\ pc = "loop"
    /\ fpc = "pool"
    /\ Cardinality(Running) < pool_size
    /\ \E i \in 1..Len(tasks) :
          /\ tasks[i] = "queued"
          /\ \A j \in 1..(i - 1) : tasks[j] # "queued"
          /\ tasks' = [tasks EXCEPT ![i] = "running"]
    /\ UNCHANGED <<frame_files, writes>>
    /\ UNCHANGED unchangedByWorker
    /\ UNCHANGED <<envVars, batchVars, cropVars, cmdVars>>

\* process_single_frame crops with its argument's crop_coords and saves the PNG.
WorkerFinish ==
    /\ pc = "loop"
    /\ fpc = "pool"
    /\ \E i \in Running :
          LET a == process_args[i]
              name == FrameName(a.frame_number)
          IN  /\ frame_files' = {r \in frame_files : r.name # name} \cup
                      {[name |-> name, frame |-> a.frame_number, crop |-> a.crop_coords]}
              /\ writes' = writes \cup {[task |-> i, name |-> name]}
              /\ tasks' = [tasks EXCEPT ![i] = "done"]
    /\ UNCHANGED unchangedByWorker
    /\ UNCHANGED <<envVars, batchVars, cropVars, cmdVars>>

\* process_single_frame raises in its worker.
WorkerFail ==
    /\ pc = "loop"
    /\ fpc = "pool"
    /\ \E i \in Running : tasks' = [tasks EXCEPT ![i] = "failed"]
    /\ UNCHANGED <<frame_files, writes>>
    /\ UNCHANGED unchangedByWorker
    /\ UNCHANGED <<envVars, batchVars, cropVars, cmdVars>>

unchangedByParent ==
    <<cmds, ret, reported, trace, detect_calls, frame_size, face_info, crop_coords,
      temp_dir, frames_data, process_args, pool_size, frame_files, writes, encoded>>

\* Pool.__exit__ terminates the worker processes.
Terminated(ts) ==
    [i \in 1..Len(ts) |-> IF ts[i] \in {"queued", "running"} THEN "killed" ELSE ts[i]]

\* The parent takes the next result from imap, in task order.
PoolYield ==
    /\ pc = "loop"
    /\ fpc = "pool"
    /\ ~PoolDrained(consumed, frames_data)
    /\ consumed < frames_data
    /\ tasks[consumed + 1] = "done"
    /\ consumed' = consumed + 1
    /\ UNCHANGED <<fpc, tasks>>
    /\ UNCHANGED unchangedByParent
    /\ UNCHANGED <<envVars, batchVars, cropVars, cmdVars>>

\* The next result is a worker's exception: imap re-raises it in the parent.
PoolRaise ==
    /\ pc = "loop"
    /\ fpc = "pool"
    /\ ~PoolDrained(consumed, frames_data)
    /\ consumed < frames_data
    /\ tasks[consumed + 1] = "failed"
    /\ tasks' = Terminated(tasks)
    /\ fpc' = "except"
    /\ UNCHANGED consumed
    /\ UNCHANGED unchangedByParent
    /\ UNCHANGED <<envVars, batchVars, cropVars, cmdVars>>

\* The loop over imap is over: the pool is closed.
PoolExit ==
    /\ pc = "loop"
    /\ fpc = "pool"
    /\ PoolDrained(consumed, frames_data)
    /\ tasks' = Terminated(tasks)
    /\ fpc' = "encode"
    /\ UNCHANGED consumed
    /\ UNCHANGED unchangedByParent
    /\ UNCHANGED <<envVars, batchVars, cropVars, cmdVars>>

\* subprocess.run(ffmpeg_cmd), then shutil.rmtree(temp_dir), then the result.
VideoEncode ==
    /\ pc = "loop"
    /\ fpc = "encode"
    /\ trace' = Append(trace, "encode")
    /\ IF ~ffmpeg_installed
       THEN /\ fpc' = "except"
            /\ UNCHANGED <<cmds, ret, reported, temp_dir, frame_files, encoded>>
       ELSE \E returncode \in ExitCodes :
               /\ cmds' = RunTool(cmds, "encode", returncode)
               /\ encoded' = ReadSequence(frame_files, 0)
               /\ temp_dir' = "removed"
               /\ frame_files' = {}
               /\ Return(returncode = 0, IF returncode = 0 THEN {"converted"} ELSE {})
    /\ UNCHANGED <<detect_calls, frame_size, face_info, crop_coords, frames_data,
                   process_args, pool_size, tasks, consumed, writes>>
    /\ UNCHANGED <<envVars, batchVars, cropVars, cmdVars>>

\* except Exception: print, traceback, return False.
VideoExcept ==
    /\ pc = "loop"
    /\ fpc = "except"
    /\ Return(FALSE, {})
    /\ UNCHANGED cmds
    /\ UNCHANGED <<envVars, batchVars, videoVars, cropVars, cmdVars>>

-----------------------------------------------------------------------------

Next ==
    \/ StartMissing \/ StartEmpty \/ StartLoop
    \/ LoopCall \/ LoopReturn \/ LoopRaise \/ Summary
    \/ AddLogo \/ ExtractAudio \/ GifPalette \/ GifEncode \/ MakeCircular
    \/ VideoOpen \/ VideoDetect \/ VideoCrop \/ VideoMkdtemp \/ VideoRead \/ VideoRaise
    \/ VideoPool \/ WorkerStart \/ WorkerFinish \/ WorkerFail
    \/ PoolYield \/ PoolRaise \/ PoolExit \/ VideoEncode \/ VideoExcept

Spec == Init /\ [][Next]_vars

-----------------------------------------------------------------------------
(* Claims.                                                                 *)

Finished == pc \in {"done", "crashed"}

HandedFiles == [i \in 1..Len(handed) |-> handed[i].file]

Successes == Cardinality({i \in 1..Len(results) : results[i]})

\* C1: when process_directory ends after discovering files, every discovered
\* file was handed to the per-file operation exactly once (none skipped, none
\* retried) and one summary "Processed S/T" was printed with T the number of
\* discovered files and S the number of operations that returned True,
\* 0 <= S <= T.
C1_EachFileOnceAndSummary ==
    (Finished /\ video_files # <<>>) =>
        /\ HandedFiles = video_files
        /\ Len(results) = Len(video_files)
        /\ Len(summary) = 1
        /\ summary[1].T = Len(video_files)
        /\ summary[1].S = Successes
        /\ 0 <= summary[1].S
        /\ summary[1].S <= summary[1].T

\* C2: any two distinct discovered input files are mapped to distinct output
\* paths.
C2_DistinctOutputs ==
    \A i, j \in 1..Len(handed) :
        handed[i].file # handed[j].file => handed[i].output # handed[j].output

ToolScripts == Scripts \ {"make_circular"}

\* C3 as stated: every returned per-file operation of a script that uses
\* ffmpeg started it exactly once.
C3_ExactlyOneInvocation ==
    (script \in ToolScripts /\ fpc = "returned") => Len(cmds) = 1

\* C3 as amended: add_logo, add_logo_to_images, extract_audio and
\* make_video_circular start ffmpeg at most once per input file, and exactly
\* once for every file they report as a success; convert_video_to_gif starts
\* it at most twice (palette pass, GIF pass), and exactly twice for every GIF
\* it reports as created.
C3_InvocationsPerFile ==
    script \in ToolScripts =>
        LET most == IF script = "video_to_gif" THEN 2 ELSE 1
        IN  /\ Len(cmds) <= most
            /\ (fpc = "returned" /\ ret) => Len(cmds) = most

C3_Witness ==
    /\ script = "video_to_gif"
    /\ fpc = "returned"
    /\ ret
    /\ Len(cmds) = 2

\* C4: whenever make_video_circular has created its temporary directory, the
\* directory no longer exists when make_video_circular returns.
C4_TempDirRemoved ==
    (fpc = "returned" /\ temp_dir # "none") => temp_dir = "removed"

Before(a, b) ==
    \A j \in 1..Len(trace) :
        trace[j] = b => \E i \in 1..(j - 1) : trace[i] = a

\* Every frame's PNG is in frames_dir under the name ffmpeg will ask for.
AllFramesWritten ==
    /\ \A i \in 1..Len(tasks) : tasks[i] = "done"
    /\ \A k \in 0..(frames_data - 1) :
          \E r \in frame_files : r.name = PatternName(k) /\ r.frame = k
    /\ Cardinality(frame_files) = frames_data

\* C5 as stated: the stages begin in the order extract frames, detect face,
\* compute crop box, parallel map, re-encode, and all frame files exist when
\* the re-encoding starts.
C5_ExtractBeforeDetect ==
    /\ Before("extract", "detect")
    /\ Before("detect", "crop")
    /\ Before("crop", "map")
    /\ Before("map", "encode")
    /\ fpc = "encode" => AllFramesWritten

PipelineOrder == <<"first_frame", "detect", "crop", "extract", "map", "encode">>

\* C5 as amended: the stages run strictly in the order read the first frame,
\* detect face, compute crop box, extract (read) all frames, parallel map,
\* re-encode, each beginning after the previous one has finished; when the
\* re-encoding ffmpeg call starts every frame's worker task has completed and
\* frame files 0..N-1 all exist, with no gap.
C5_StagesInOrder ==
    /\ Len(trace) <= Len(PipelineOrder)
    /\ \A i \in 1..Len(trace) : trace[i] = PipelineOrder[i]
    /\ fpc = "encode" => AllFramesWritten
    /\ (Len(cmds) > 0 /\ script = "make_video_circular") =>
            encoded = [k \in 1..frames_data |-> k - 1]

C5_Witness ==
    /\ fpc = "encode"
    /\ frames_data >= 2
    /\ pool_size >= 2
    /\ AllFramesWritten

\* C6: worker task i writes only the file of frame i, no two tasks write the
\* same file, and whatever the interleaving and the pool size the pool leaves
\* the same set of frame files, which ffmpeg reads in frame order.
C6_IndependentTasks ==
    /\ \A w \in writes : w.name = PatternName(w.task - 1)
    /\ \A v, w \in writes : v.name = w.name => v.task = w.task
    /\ fpc = "encode" =>
          {r.name : r \in frame_files} = {PatternName(k) : k \in 0..(frames_data - 1)}
    /\ fpc = "encode" =>
          ReadSequence(frame_files, 0) = [k \in 1..frames_data |-> k - 1]

\* The second task's file is written while the first task still runs.
C6_Witness ==
    /\ fpc = "pool"
    /\ Len(tasks) >= 2
    /\ tasks[1] = "running"
    /\ tasks[2] = "done"
    /\ Cardinality(writes) = 1

\* C7: the face is detected once per video, on the first frame, and the one
\* crop box computed from it is the box every frame is cropped with.
C7_OneDetectionOneCropBox ==
    /\ Len(detect_calls) <= 1
    /\ \A i \in 1..Len(detect_calls) : detect_calls[i] = 0
    /\ Len(trace) >= 3 =>
          crop_coords = CropBox(frame_size.width, frame_size.height, face_info,
                                DefaultCropScale)
    /\ \A i \in 1..Len(process_args) : process_args[i].crop_coords = crop_coords
    /\ \A r \in frame_files : r.crop = crop_coords

C7_Witness ==
    /\ face_info.found
    /\ Len(detect_calls) = 1
    /\ Cardinality(frame_files) >= 2

\* C9: no per-file operation raises, so no batch is left by an exception.
C9_FailureNeverAborts ==
    /\ fpc # "raised"
    /\ pc # "crashed"

\* C10: convert_video_to_gif runs the palette pass first and the GIF pass only
\* after a palette pass that exited 0; after a palette pass that exited
\* non-zero no second command is run, no GIF is reported as created and the
\* function returns False.
C10_PaletteThenGif ==
    script = "video_to_gif" =>
        /\ Len(cmds) >= 1 => cmds[1].pass = "palettegen"
        /\ \A i \in 1..Len(cmds) :
              cmds[i].pass = "paletteuse" =>
                  i = 2 /\ cmds[1].pass = "palettegen" /\ cmds[1].returncode = 0
        /\ (Len(cmds) >= 1 /\ cmds[1].returncode # 0) =>
              /\ Len(cmds) = 1
              /\ fpc = "returned"
              /\ ret = FALSE
              /\ "created GIF" \notin reported

C10_Witness ==
    /\ script = "video_to_gif"
    /\ fpc = "returned"
    /\ Len(cmds) = 1
    /\ cmds[1].returncode # 0

-----------------------------------------------------------------------------
(* The crop box as a function of its inputs (SpecCrop).                    *)

MinFaceSize == 30     \* detectMultiScale(..., minSize=(30, 30))

\* Frame widths and heights, and the sides of detected rectangles.
FrameSides == {MinFaceSize, MinFaceSize + 1, 80}
FaceSides == {MinFaceSize, MinFaceSize + 1}

\* --radius values (exact in binary floating point), all >= 0.
CropScales ==
    {[num |-> 0, den |-> 1], [num |-> 1, den |-> 32], [num |-> 1, den |-> 1],
     [num |-> 5, den |-> 2], [num |-> 4, den |-> 1]}

\* The rectangles the classifier can report in a width x height frame: of at
\* least the minimum size and inside the frame.
FacesIn(width, height) ==
    UNION {{Rect(x, y, side[1], side[2]) :
                x \in 0..(width - side[1]), y \in 0..(height - side[2])}
           : side \in FaceSides \X FaceSides}

\* The classifier's answers: no face, or one face.
FaceLists(width, height) == {<<>>} \cup {<<r>> : r \in FacesIn(width, height)}

\* The crop scales a caller can run with.
ScalesOf(caller) ==
    IF caller = "make_circular" THEN {MakeCircularScale} ELSE CropScales

InitCrop ==
    /\ script = "make_circular"
    /\ dir_files = {}
    /\ output_dir = FALSE
    /\ ffmpeg_installed = TRUE
    /\ audio_format = "mp3"
    /\ BatchStart
    /\ CallIdle
    /\ VideoIdle
    /\ cpc = "input"
    /\ \E c \in {"make_circular", "make_video_circular"}, w \in FrameSides, h \in FrameSides :
          \E k \in ScalesOf(c), fs \in FaceLists(w, h) :
              cin = [caller |-> c, width |-> w, height |-> h, scale |-> k, faces |-> fs]
    /\ cface = NoFace
    /\ cbox = Box(0, 0, 0, 0)
    /\ CmdIdle

\* face_info = detect_face(image_path) / detect_face_in_frame(first_frame).
CropDetect ==
    /\ cpc = "input"
    /\ cface' = detect_face_in_frame(cin.faces)
    /\ cpc' = "detected"
    /\ UNCHANGED <<cin, cbox>>
    /\ UNCHANGED <<envVars, batchVars, callVars, videoVars, cmdVars>>

\* The crop coordinates of make_circular (scale 2.5) and make_video_circular.
CropCompute ==
    /\ cpc = "detected"
    /\ cbox' = IF cin.caller = "make_circular"
               THEN CropBox(cin.width, cin.height, cface, MakeCircularScale)
               ELSE CropBox(cin.width, cin.height, cface, cin.scale)
    /\ cpc' = "cropped"
    /\ UNCHANGED <<cin, cface>>
    /\ UNCHANGED <<envVars, batchVars, callVars, videoVars, cmdVars>>

NextCrop == CropDetect \/ CropCompute

SpecCrop == InitCrop /\ [][NextCrop]_vars

Abs(n) == IF n < 0 THEN -n ELSE n

\* The side asked for: int(face_size * crop_scale), at most width and height.
AskedSize ==
    Min((cface.face_size * cin.scale.num) \div cin.scale.den, Min(cin.width, cin.height))

\* The square of side size placed around centre c lies within 0..limit.
Fits(c, size, limit) == c - size \div 2 >= 0 /\ c - size \div 2 + size <= limit

\* The crop's centre is the face's centre, up to one pixel, on both axes.
CenteredOnFace ==
    /\ Abs(2 * cface.center_x - (cbox.left + cbox.right)) <= 2
    /\ Abs(2 * cface.center_y - (cbox.top + cbox.bottom)) <= 2

\* C8 as stated: for every frame size and every face inside the frame, the
\* centre of the crop square is the centre of the detected face, up to one
\* pixel.
C8_AlwaysCenteredOnFace ==
    (cpc = "cropped" /\ cface.found) => CenteredOnFace

\* C8 as amended: when a face is detected and the square of side
\* min(int(face_size * crop_scale), width, height) placed around the face
\* centre lies inside the frame, the centre of the crop square is the centre of
\* the face, up to one pixel; otherwise the square is shifted along each axis
\* it overhangs until it touches that frame border, and its centre is no
\* longer the face's.
C8_CenteredWhenItFits ==
    (cpc = "cropped" /\ cface.found) =>
        /\ (/\ Fits(cface.center_x, AskedSize, cin.width)
            /\ Fits(cface.center_y, AskedSize, cin.height)) => CenteredOnFace
        /\ ~Fits(cface.center_x, AskedSize, cin.width) =>
              cbox.left = 0 \/ cbox.right = cin.width
        /\ ~Fits(cface.center_y, AskedSize, cin.height) =>
              cbox.top = 0 \/ cbox.bottom = cin.height

C8_Witness ==
    /\ cpc = "cropped"
    /\ cface.found
    /\ cin.caller = "make_circular"
    /\ Fits(cface.center_x, AskedSize, cin.width)
    /\ Fits(cface.center_y, AskedSize, cin.height)
    /\ 0 < cbox.left
    /\ cbox.right < cin.width
    /\ cbox.right - cbox.left > 2

-----------------------------------------------------------------------------
(* Discovery.                                                              *)

\* The regular files process_directory is to look at: the input directory's
\* own files, for make_circular those of its subdirectories too.
InScope(s, f) == s = "make_circular" \/ f.dir = InputDir

\* The files whose extension, compared case-insensitively, is supported.
MediaFiles(s, files) ==
    {f \in files : InScope(s, f) /\ Lower(f.suffix) \in extensions(s)}

\* C11: every regular file in the input directory (for make_circular also in
\* its subdirectories) whose extension, compared case-insensitively, is in the
\* script's supported set is discovered, once, and handed to the per-file
\* operation by the time the summary is printed.
C11_AllMediaFilesProcessed ==
    /\ pc = "loop" =>
            /\ Range(video_files) = MediaFiles(script, dir_files)
            /\ \A i, j \in 1..Len(video_files) : i # j => video_files[i] # video_files[j]
    /\ Len(summary) = 1 => Range(HandedFiles) = MediaFiles(script, dir_files)

-----------------------------------------------------------------------------
(* extract_audio's formats.                                                *)

Codecs == {"libmp3lame", "pcm_s16le", "aac", "libvorbis", "flac"}

-----------------------------------------------------------------------------
(* The argument lists built by add_logo_to_video, add_logo_to_image and      *)
(* convert_video_to_gif, as functions of their arguments (SpecCmd).          *)

\* str(path)
PathStr(f) == f.dir[1] \o "/" \o f.stem \o f.suffix

\* list.insert(i, x), i counted from 0
Insert(s, i, x) == SubSeq(s, 1, i) \o <<x>> \o SubSeq(s, i + 1, Len(s))

\* The positions dictionary, its values formatted with the margin.
positions(margin) ==
    LET m == ToString(margin)
    IN  ("top-right" :> ("W-w-" \o m \o ":" \o m)) @@
        ("top-left" :> (m \o ":" \o m)) @@
        ("bottom-right" :> ("W-w-" \o m \o ":H-h-" \o m)) @@
        ("bottom-left" :> (m \o ":H-h-" \o m))

\* Mutant: the position is used as given.
PositionUnchecked(position, margin) == position

\* if position not in positions: position = "top-right"
EffectivePosition(position, margin) ==
    IF position \notin DOMAIN positions(margin) THEN "top-right" ELSE position

\* The -filter_complex argument of the logo overlay.
OverlayFilter(logo_scale, expr) ==
    "[1:v]scale=iw*" \o logo_scale \o ":-1[logo];[0:v][logo]overlay=" \o expr

\* cmd of add_logo_to_video / add_logo_to_image; positions[position] raises
\* KeyError for a key the dictionary lacks.
LogoCmd(s, a) ==
    LET position == EffectivePosition(a.position, a.margin)
    IN  IF position \notin DOMAIN positions(a.margin)
        THEN [raised |-> TRUE, cmds |-> <<>>]
        ELSE [raised |-> FALSE,
              cmds |-> << <<"ffmpeg", "-i", PathStr(a.input), "-i", a.logo_path,
                            "-filter_complex",
                            OverlayFilter(a.logo_scale, positions(a.margin)[position])>>
                          \o (IF s = "add_logo" THEN <<"-codec:a", "copy">> ELSE <<>>)
                          \o <<"-y", a.output>> >>]

quality_settings ==
    ("low" :> [colors |-> 128, dither |-> "bayer:bayer_scale=3"]) @@
    ("medium" :> [colors |-> 256, dither |-> "bayer:bayer_scale=5"]) @@
    ("high" :> [colors |-> 256, dither |-> "floyd_steinberg"])

\* Mutant: an unknown quality falls back to the smallest palette.
QualityFallbackLow(quality) ==
    IF quality \notin DOMAIN quality_settings THEN "low" ELSE quality

\* if quality not in quality_settings: quality = 'medium'
EffectiveQuality(quality) ==
    IF quality \notin DOMAIN quality_settings THEN "medium" ELSE quality

\* An optional argument is <<>> (None) or <<v>>; "if width:" is also false for 0.
\* --start and --duration are floats, carried as the text str() gives them.
scale_filter(width) ==
    IF width # <<>> /\ width[1] # 0
    THEN "scale=" \o ToString(width[1]) \o ":-1:flags=lanczos"
    ELSE "scale=iw:ih:flags=lanczos"

input_options(video_path, start_time, duration) ==
    LET given == <<"-i", PathStr(video_path)>>
        seek  == IF start_time # <<>>
                 THEN Insert(Insert(given, 0, "-ss"), 1, start_time[1])
                 ELSE given
    IN  IF duration # <<>>
        THEN Insert(Insert(seek, 0, "-t"), 1, duration[1])
        ELSE seek

palette_path(video_path) ==
    video_path.dir[1] \o "/palette_" \o video_path.stem \o ".png"

palette_filter(a, settings) ==
    scale_filter(a.width) \o ",fps=" \o ToString(a.fps) \o ",palettegen=max_colors="
        \o ToString(settings.colors) \o ":stats_mode=diff"

palette_cmd(a, settings) ==
    <<"ffmpeg">> \o input_options(a.input, a.start_time, a.duration)
        \o <<"-vf", palette_filter(a, settings), "-y", palette_path(a.input)>>

gif_filter(a, settings) ==
    scale_filter(a.width) \o ",fps=" \o ToString(a.fps) \o "[x];[x][1:v]paletteuse=dither="
        \o settings.dither

gif_cmd(a, settings) ==
    <<"ffmpeg">> \o input_options(a.input, a.start_time, a.duration)
        \o <<"-i", palette_path(a.input), "-filter_complex", gif_filter(a, settings),
             "-loop", "0", "-y", a.output>>

\* The two argument lists of convert_video_to_gif, the second as built once
\* the palette pass has exited with 0.
GifCmds(a) ==
    LET quality == EffectiveQuality(a.quality)
    IN  IF quality \notin DOMAIN quality_settings
        THEN [raised |-> TRUE, cmds |-> <<>>]
        ELSE [raised |-> FALSE,
              cmds |-> <<palette_cmd(a, quality_settings[quality]),
                         gif_cmd(a, quality_settings[quality])>>]

CmdScripts == LogoScripts \cup {"video_to_gif"}

ValidPositions == {"top-right", "top-left", "bottom-right", "bottom-left"}
Positions == ValidPositions \cup {"center", "Top-Right"}
Margins   == {0, 10, 20}
ValidQualities == {"low", "medium", "high"}
Qualities == ValidQualities \cup {"best", "HIGH"}
FrameRates == {10, 15}
Widths     == {<<>>, <<0>>, <<320>>}
StartTimes == {<<>>, <<"0.0">>, <<"5.0">>}
Durations  == {<<>>, <<"3.0">>}

CmdInput(s) ==
    IF s = "add_logo_to_images" THEN File(InputDir, "a", ".png")
                                ELSE File(InputDir, "a", ".mp4")

CmdOutput(s, f) ==
    IF s = "video_to_gif" THEN PathStr(File(f.dir, f.stem, ".gif"))
                          ELSE PathStr(File(OutDir, f.stem, f.suffix))

OnlyFor(s, S, default) == IF s THEN S ELSE {default}

InitCmd ==
    /\ script \in CmdScripts
    /\ dir_files = {}
    /\ output_dir = FALSE
    /\ ffmpeg_installed = TRUE
    /\ audio_format = "mp3"
    /\ BatchStart
    /\ CallIdle
    /\ VideoIdle
    /\ CropIdle
    /\ kpc = "input"
    /\ \E p \in OnlyFor(script \in LogoScripts, Positions, "top-right"),
          m \in OnlyFor(script \in LogoScripts, Margins, 10),
          q \in OnlyFor(script = "video_to_gif", Qualities, "medium") :
          \E r \in OnlyFor(script = "video_to_gif", FrameRates, 10),
             w \in OnlyFor(script = "video_to_gif", Widths, <<>>),
             st \in OnlyFor(script = "video_to_gif", StartTimes, <<>>),
             d \in OnlyFor(script = "video_to_gif", Durations, <<>>) :
              kargs = [input |-> CmdInput(script),
                       output |-> CmdOutput(script, CmdInput(script)),
                       logo_path |-> "logo.png", position |-> p, margin |-> m,
                       logo_scale |-> "0.15", fps |-> r, width |-> w, quality |-> q,
                       start_time |-> st, duration |-> d]
    /\ kcmd = [raised |-> FALSE, cmds |-> <<>>]

BuildLogoCmd ==
    /\ kpc = "input"
    /\ script \in LogoScripts
    /\ kcmd' = LogoCmd(script, kargs)
    /\ kpc' = "built"
    /\ UNCHANGED kargs
    /\ UNCHANGED <<envVars, batchVars, callVars, videoVars, cropVars>>

BuildGifCmds ==
    /\ kpc = "input"
    /\ script = "video_to_gif"
    /\ kcmd' = GifCmds(kargs)
    /\ kpc' = "built"
    /\ UNCHANGED kargs
    /\ UNCHANGED <<envVars, batchVars, callVars, videoVars, cropVars>>

NextCmd == BuildLogoCmd \/ BuildGifCmds

SpecCmd == InitCmd /\ [][NextCmd]_vars

FilterOf(cmd) == cmd[7]

\* C13: in add_logo and add_logo_to_images a position outside the four names
\* is replaced by 'top-right': the overlay expression and the whole argument
\* list equal those built for 'top-right' with the same margin, and no position
\* value makes the call raise.
C13_InvalidPositionIsTopRight ==
    (kpc = "built" /\ script \in LogoScripts) =>
        /\ ~kcmd.raised
        /\ Len(kcmd.cmds) = 1
        /\ kargs.position \notin ValidPositions =>
              /\ kcmd = LogoCmd(script, [kargs EXCEPT !.position = "top-right"])
              /\ FilterOf(kcmd.cmds[1]) =
                    "[1:v]scale=iw*" \o kargs.logo_scale
                        \o ":-1[logo];[0:v][logo]overlay=W-w-"
                        \o ToString(kargs.margin) \o ":" \o ToString(kargs.margin)

C13_Witness ==
    /\ kpc = "built"
    /\ script = "add_logo_to_images"
    /\ kargs.position = "center"
    /\ kargs.margin = 20
    /\ Len(kcmd.cmds) = 1

MediumSettings == [colors |-> 256, dither |-> "bayer:bayer_scale=5"]

\* C14: in convert_video_to_gif a quality outside low, medium, high is
\* replaced by 'medium': the palette command and the GIF command equal those
\* built for 'medium' with the same other arguments.
C14_InvalidQualityIsMedium ==
    (kpc = "built" /\ script = "video_to_gif" /\ kargs.quality \notin ValidQualities) =>
        /\ ~kcmd.raised
        /\ kcmd = GifCmds([kargs EXCEPT !.quality = "medium"])
        /\ kcmd.cmds = <<palette_cmd(kargs, MediumSettings), gif_cmd(kargs, MediumSettings)>>

C14_Witness ==
    /\ kpc = "built"
    /\ script = "video_to_gif"
    /\ kargs.quality = "HIGH"
    /\ kargs.start_time = <<"5.0">>
    /\ kargs.duration = <<"3.0">>
    /\ Len(kcmd.cmds) = 2

-----------------------------------------------------------------------------
(* The crop box (SpecCrop).                                                 *)

InsideFrame ==
    /\ 0 <= cbox.left /\ cbox.left <= cbox.right /\ cbox.right <= cin.width
    /\ 0 <= cbox.top /\ cbox.top <= cbox.bottom /\ cbox.bottom <= cin.height

IsSquare == cbox.right - cbox.left = cbox.bottom - cbox.top

\* C15: for every frame size, every detected face inside the frame and every
\* crop scale >= 0, the crop box of make_circular / make_video_circular lies
\* within the frame (0 <= left <= right <= width, 0 <= top <= bottom <= height)
\* and is square.
C15_BoxInsideFrameAndSquare ==
    (cpc = "cropped" /\ cface.found) => InsideFrame /\ IsSquare

C15_Witness ==
    /\ cpc = "cropped"
    /\ cface.found
    /\ ~Fits(cface.center_x, AskedSize, cin.width)
    /\ cbox.right = cin.width
    /\ cbox.left > 0
    /\ cbox.top = 0

NonEmptyBox == cbox.right - cbox.left >= 1 /\ cbox.bottom - cbox.top >= 1

\* C16: for every crop scale strictly greater than 0 and every detected face,
\* the crop box computed by make_video_circular is non-empty (right - left >= 1
\* and bottom - top >= 1).
C16_NonEmptyForPositiveScale ==
    (/\ cpc = "cropped"
     /\ cin.caller = "make_video_circular"
     /\ cface.found
     /\ cin.scale.num > 0) => NonEmptyBox

\* What the code guarantees instead: the box is empty exactly when
\* int(face_size * crop_scale) is 0.
C16_EmptyIffSizeTruncatesToZero ==
    (/\ cpc = "cropped"
     /\ cin.caller = "make_video_circular"
     /\ cface.found) => (NonEmptyBox <=> AskedSize >= 1)

\* C17: with no face detected the crop box is the square of side
\* min(width, height) with left = (width - side) // 2 and
\* top = (height - side) // 2; it lies inside the frame and the margins on the
\* two sides of each dimension differ by at most one pixel.
C17_CenterCropFallback ==
    (cpc = "cropped" /\ ~cface.found) =>
        LET side == Min(cin.width, cin.height)
        IN  /\ cbox.right - cbox.left = side
            /\ cbox.bottom - cbox.top = side
            /\ cbox.left = (cin.width - side) \div 2
            /\ cbox.top = (cin.height - side) \div 2
            /\ InsideFrame
            /\ Abs(cbox.left - (cin.width - cbox.right)) <= 1
            /\ Abs(cbox.top - (cin.height - cbox.bottom)) <= 1

C17_Witness ==
    /\ cpc = "cropped"
    /\ ~cface.found
    /\ cin.width > cin.height + 1
    /\ cbox.left > 0
    /\ cin.width - cbox.right = cbox.left + 1

====
